---- MODULE Spec2Model ----
(***************************************************************************)
(* A model of the granges data layer:                                      *)
(*   src/src/data/operations.rs   median, Operation, float_compute         *)
(*   src/src/io/parsers/tsv.rs    deserialize_option_generic,              *)
(*                                is_gzipped_file, TsvRecordIterator       *)
(*                                                                         *)
(* Text (String) is a sequence of one-character strings.                   *)
(* A value of the element type T (T: Float) is a binary floating-point     *)
(* number with a MantBits-bit significand, held as an integer count of     *)
(* quanta of 2^-FracBits; every arithmetic result is rounded to the        *)
(* nearest representable value, ties to even, as IEEE-754 arithmetic does. *)
(***************************************************************************)
EXTENDS Integers, Sequences, FiniteSets

VARIABLES
    data,        \* the caller's slice handed to float_compute (data: &[T])
    operation,   \* the Operation of the last float_compute call, or "Idle"
    result,      \* what the last float_compute call produced
    field,       \* the field text handed to deserialize_option_generic
    missing,     \* the missing_chars slice handed to it
    decoded,     \* what deserialize_option_generic returned
    file,        \* the source at filepath: absent, or its rows and leading bytes
    iter,        \* the TsvRecordIterator (or the error new returned)
    pulled       \* the items next() has yielded so far, in order

vars == <<data, operation, result, field, missing, decoded, file, iter, pulled>>

aggVars == <<data, operation, result>>
decVars == <<field, missing, decoded>>
tsvVars == <<file, iter, pulled>>

\* before any call: no result, no source at the path, no iterator built
NotCalled == [tag |-> "NotCalled", val |-> 0, str |-> <<>>]
NoFile == [exists |-> FALSE, bytes |-> <<>>]
NoIter == [tag |-> "None", err |-> "", gz |-> FALSE, pos |-> 0, cursor |-> 0]

----------------------------------------------------------------------------
(* Bounds of the model. *)

\* width of the significand of T, in bits
MantBits == 3
\* binary digits after the point of the smallest quantum of T
FracBits == 1
\* longest slice handed to float_compute
MaxLen == 3
\* longest source handed to TsvRecordIterator::new, in rows
MaxRows == 3
\* columns of the record shape T the stream is read into
Arity == 2

----------------------------------------------------------------------------
(* The element type T: Float + Ord + Sum + ToString. *)

RECURSIVE Pow(_, _)
Pow(b, n) == IF n = 0 THEN 1 ELSE b * Pow(b, n - 1)

\* quanta per 1.0
Unit == Pow(2, FracBits)

Abs(x) == IF x < 0 THEN -x ELSE x

\* least e >= 0 with a / d < 2^(MantBits + e): the binade of a / d
RECURSIVE Binade(_, _, _)
Binade(a, d, e) ==
    IF a < d * Pow(2, MantBits + e) THEN e ELSE Binade(a, d, e + 1)

\* the representable value nearest to the real n / d (d > 0), ties to even
RoundRat(n, d) ==
    LET a == Abs(n)
        e == Binade(a, d, 0)
        g == d * Pow(2, e)
        q == a \div g
        r == a % g
        m == IF 2 * r > g THEN q + 1
             ELSE IF 2 * r < g THEN q
             ELSE IF q % 2 = 0 THEN q ELSE q + 1
    IN  (IF n < 0 THEN -1 ELSE 1) * m * Pow(2, e)

\* T's addition
FAdd(a, b) == RoundRat(a + b, 1)
\* T's division (b # 0)
FDiv(a, b) == IF b < 0 THEN RoundRat(-(a * Unit), -b) ELSE RoundRat(a * Unit, b)
\* T::from(k) of an integer k
FFrom(k) == RoundRat(k * Unit, 1)
\* T's zero
FZero == FFrom(0)

\* the decimal digits of a natural number
Digit(d) == CASE d = 0 -> "0" [] d = 1 -> "1" [] d = 2 -> "2" [] d = 3 -> "3"
              [] d = 4 -> "4" [] d = 5 -> "5" [] d = 6 -> "6" [] d = 7 -> "7"
              [] d = 8 -> "8" [] d = 9 -> "9"

RECURSIVE NatToStr(_)
NatToStr(n) == IF n < 10 THEN <<Digit(n)>>
               ELSE NatToStr(n \div 10) \o <<Digit(n % 10)>>

\* the k decimal digits of f / 10^k, zero padded on the left
RECURSIVE FixedDigits(_, _)
FixedDigits(f, k) == IF k = 0 THEN <<>>
                     ELSE FixedDigits(f \div 10, k - 1) \o <<Digit(f % 10)>>

RECURSIVE StripZeros(_)
StripZeros(s) == IF s # <<>> /\ s[Len(s)] = "0"
                 THEN StripZeros(SubSeq(s, 1, Len(s) - 1)) ELSE s

\* T's Display: the exact decimal expansion, no padding, no trailing ".0"
to_string(x) ==
    LET a    == Abs(x)
        int  == a \div Unit
        frac == StripZeros(FixedDigits((a % Unit) * Pow(5, FracBits), FracBits))
    IN  (IF x < 0 THEN <<"-">> ELSE <<>>)
        \o NatToStr(int)
        \o (IF frac = <<>> THEN <<>> ELSE <<".">> \o frac)

----------------------------------------------------------------------------
(* src/src/data/operations.rs *)

\* Option<OperationResult<T>>, or the panic that unwinds out of the call
None == [tag |-> "None", val |-> 0, str |-> <<>>]
SomeFloat(x) == [tag |-> "Float", val |-> x, str |-> <<>>]
SomeString(s) == [tag |-> "String", val |-> 0, str |-> s]
Panic == [tag |-> "Panic", val |-> 0, str |-> <<>>]

\* numbers.sort_unstable(): ascending under T's Ord
RECURSIVE Insert(_, _)
Insert(s, x) == IF s = <<>> THEN <<x>>
                ELSE IF x <= Head(s) THEN <<x>> \o s
                ELSE <<Head(s)>> \o Insert(Tail(s), x)

RECURSIVE sort_unstable(_)
sort_unstable(s) == IF s = <<>> THEN <<>>
                    ELSE Insert(sort_unstable(Tail(s)), Head(s))

\* median without the sort: the midpoint rule on the slice as given
median_unsorted(slice) ==
    LET numbers == slice
        mid == Len(numbers) \div 2
    IN  [slice |-> slice,
         ret |->
            IF numbers = <<>> THEN Panic
            ELSE IF Len(numbers) % 2 = 0
            THEN SomeFloat(FDiv(FAdd(numbers[mid], numbers[mid + 1]), FFrom(2)))
            ELSE SomeFloat(numbers[mid + 1])]

\* median(numbers): [ret: the value returned or Panic, slice: the caller's
\* slice after the call].  Index i of the Vec is element i + 1 here; an index
\* outside the Vec panics (mid - 1 on an empty Vec either overflows usize or
\* wraps to an index past the end: both builds panic).
median(slice) ==
    LET numbers == sort_unstable(slice)
        mid == Len(numbers) \div 2
        At(i) == IF i >= 0 /\ i < Len(numbers) THEN SomeFloat(numbers[i + 1]) ELSE Panic
    IN  [slice |-> slice,
         ret |->
            IF Len(numbers) % 2 = 0
            THEN IF At(mid - 1) = Panic \/ At(mid) = Panic THEN Panic
                 ELSE SomeFloat(FDiv(FAdd(At(mid - 1).val, At(mid).val), FFrom(2)))
            ELSE At(mid)]

\* data.iter().cloned().sum(): fold of T's addition from zero
RECURSIVE SumFrom(_, _)
SumFrom(acc, s) == IF s = <<>> THEN acc ELSE SumFrom(FAdd(acc, Head(s)), Tail(s))
\* the fold started from one instead of zero
sum_from_one(s) == SumFrom(FFrom(1), s)
sum(s) == SumFrom(FZero, s)

\* Iterator::min / Iterator::max under T's Ord: None on an empty iterator
RECURSIVE MinFrom(_, _)
MinFrom(best, s) == IF s = <<>> THEN best
                    ELSE MinFrom(IF Head(s) < best THEN Head(s) ELSE best, Tail(s))

RECURSIVE MaxFrom(_, _)
MaxFrom(best, s) == IF s = <<>> THEN best
                    ELSE MaxFrom(IF Head(s) >= best THEN Head(s) ELSE best, Tail(s))
\* the Min arm calling .max()
min_as_max(s) == IF s = <<>> THEN None ELSE SomeFloat(MaxFrom(Head(s), Tail(s)))
min(s) == IF s = <<>> THEN None ELSE SomeFloat(MinFrom(Head(s), Tail(s)))
max(s) == IF s = <<>> THEN None ELSE SomeFloat(MaxFrom(Head(s), Tail(s)))

mean(s) == IF s = <<>> THEN None ELSE SomeFloat(FDiv(sum(s), FFrom(Len(s))))

\* .map(|num| num.to_string()).collect::<Vec<_>>().join(", ")
RECURSIVE join(_, _)
join(strs, sep) == IF strs = <<>> THEN <<>>
                   ELSE IF Len(strs) = 1 THEN strs[1]
                   ELSE strs[1] \o sep \o join(Tail(strs), sep)

\* the values sorted before they are rendered
collapse_sorted(s) ==
    join([i \in 1..Len(s) |-> to_string(sort_unstable(s)[i])], <<",", " ">>)
collapse(s) == join([i \in 1..Len(s) |-> to_string(s[i])], <<",", " ">>)

\* float_compute(operation, data): [ret, slice]
float_compute(op, slice) ==
    CASE op = "Sum"      -> [ret |-> SomeFloat(sum(slice)), slice |-> slice]
      [] op = "Min"      -> [ret |-> min(slice), slice |-> slice]
      [] op = "Max"      -> [ret |-> max(slice), slice |-> slice]
      [] op = "Mean"     -> [ret |-> mean(slice), slice |-> slice]
      [] op = "Median"   -> median(slice)
      [] op = "Collapse" -> [ret |-> SomeString(collapse(slice)), slice |-> slice]

Operation == {"Sum", "Min", "Max", "Mean", "Median", "Collapse"}

\* the element values the model draws slices from, in quanta: 2^MantBits is
\* the first value whose successor is two quanta away
Big == Pow(2, MantBits)
Values == {-Big, -1, 1, 2, 3, Big}

RECURSIVE SeqsUpTo(_, _)
SeqsUpTo(S, n) == IF n = 0 THEN {<<>>}
                  ELSE LET shorter == SeqsUpTo(S, n - 1)
                       IN  shorter \cup {Append(s, x) : s \in shorter, x \in S}

\* float_compute is about to be called on some slice; the decoder and the
\* record stream are not in use
AggInit ==
    /\ data \in SeqsUpTo(Values, MaxLen)
    /\ operation = "Idle"
    /\ result = NotCalled
    /\ field = <<>> /\ missing = {} /\ decoded = NotCalled
    /\ file = NoFile /\ iter = NoIter /\ pulled = <<>>

Compute(op) ==
    /\ operation' = op
    /\ result' = float_compute(op, data).ret
    /\ data' = float_compute(op, data).slice

ComputeSum == Compute("Sum") /\ UNCHANGED <<decVars, tsvVars>>
ComputeMin == Compute("Min") /\ UNCHANGED <<decVars, tsvVars>>
ComputeMax == Compute("Max") /\ UNCHANGED <<decVars, tsvVars>>
ComputeMean == Compute("Mean") /\ UNCHANGED <<decVars, tsvVars>>
ComputeMedian == Compute("Median") /\ UNCHANGED <<decVars, tsvVars>>
ComputeCollapse == Compute("Collapse") /\ UNCHANGED <<decVars, tsvVars>>

AggNext ==
    \/ ComputeSum
    \/ ComputeMin
    \/ ComputeMax
    \/ ComputeMean
    \/ ComputeMedian
    \/ ComputeCollapse

\* the aggregator on every slice of up to MaxLen values
Spec == AggInit /\ [][AggNext]_vars

----------------------------------------------------------------------------
(* src/src/io/parsers/tsv.rs: deserialize_option_generic *)

\* Result<Option<T>, D::Error>
OkNone == [tag |-> "OkNone", val |-> 0, str |-> <<>>]
OkSome(x) == [tag |-> "OkSome", val |-> x, str |-> <<>>]
Err(msg) == [tag |-> "Err", val |-> 0, str |-> msg]

Digits == {"0", "1", "2", "3", "4", "5", "6", "7", "8", "9"}
DigitVal(c) == CHOOSE d \in 0..9 : Digit(d) = c

\* the natural number a digit string spells (0 for the empty string)
RECURSIVE StrToNat(_)
StrToNat(s) == IF s = <<>> THEN 0
               ELSE 10 * StrToNat(SubSeq(s, 1, Len(s) - 1)) + DigitVal(s[Len(s)])

\* the Display of core::num::ParseFloatError
EmptyFloatMsg == <<"c", "a", "n", "n", "o", "t", " ", "p", "a", "r", "s", "e", " ", "f", "l", "o", "a", "t", " ", "f", "r", "o", "m", " ", "e", "m", "p", "t", "y", " ", "s", "t", "r", "i", "n", "g">>
InvalidFloatMsg == <<"i", "n", "v", "a", "l", "i", "d", " ", "f", "l", "o", "a", "t", " ", "l", "i", "t", "e", "r", "a", "l">>

\* <T as FromStr>::from_str for a float T: an optional sign, then digits with
\* at most one point and at least one digit; the value is the decimal rounded
\* to the nearest T.  (Exponents, "inf" and "nan" use letters no field text
\* of the model has.)
parse(s) ==
    LET signed == s # <<>> /\ s[1] \in {"+", "-"}
        body   == IF signed THEN Tail(s) ELSE s
        points == {i \in 1..Len(body) : body[i] = "."}
        cut    == IF points = {} THEN Len(body) + 1 ELSE CHOOSE i \in points : TRUE
        int    == SubSeq(body, 1, cut - 1)
        frac   == SubSeq(body, cut + 1, Len(body))
        wellFormed ==
            /\ Cardinality(points) <= 1
            /\ \A i \in 1..Len(body) : body[i] \in Digits \cup {"."}
            /\ Len(int) + Len(frac) >= 1
        num    == StrToNat(int) * Pow(10, Len(frac)) + StrToNat(frac)
        mag    == RoundRat(num * Unit, Pow(10, Len(frac)))
    IN  IF s = <<>> THEN Err(EmptyFloatMsg)
        ELSE IF ~wellFormed THEN Err(InvalidFloatMsg)
        ELSE OkSome(IF signed /\ s[1] = "-" THEN -mag ELSE mag)

\* format!("parsing error: {}", e)
ParsingErrorPrefix == <<"p", "a", "r", "s", "i", "n", "g", " ", "e", "r", "r", "o", "r", ":", " ">>

\* the field parsed before the missing tokens are looked at
deserialize_parse_first(s, missing_chars) ==
    IF parse(s).tag = "OkSome" THEN parse(s)
    ELSE IF s \in missing_chars THEN OkNone
    ELSE Err(ParsingErrorPrefix \o parse(s).str)

\* deserialize_option_generic(deserializer, missing_chars), on the String s
\* the deserializer yields
deserialize_option_generic(s, missing_chars) ==
    IF s \in missing_chars
    THEN OkNone
    ELSE IF parse(s).tag = "OkSome"
         THEN parse(s)
         ELSE Err(ParsingErrorPrefix \o parse(s).str)

\* the field texts and missing tokens the model draws from
FieldTexts ==
    { <<".">>, <<"N", "A">>, <<>>, <<"1">>, <<"2", ".", "5">>, <<"-", "1", ".", "5">>,
      <<"0", ".", "3">>, <<"1", ".">>, <<"a", "b", "c">>, <<"1", ",", "5">>, <<"+">> }
MissingTokens == { <<".">>, <<"N", "A">>, <<>>, <<"1">> }

\* the decoder is about to be called on some field; the aggregator and the
\* record stream are not in use
DecInit ==
    /\ field \in FieldTexts
    /\ missing \in SUBSET MissingTokens
    /\ decoded = NotCalled
    /\ data = <<>> /\ operation = "Idle" /\ result = NotCalled
    /\ file = NoFile /\ iter = NoIter /\ pulled = <<>>

Deserialize ==
    /\ decoded = NotCalled
    /\ decoded' = deserialize_option_generic(field, missing)
    /\ UNCHANGED <<field, missing, aggVars, tsvVars>>

\* the field decoder on every field text and missing-token set
SpecDecoder == DecInit /\ [][Deserialize]_vars

----------------------------------------------------------------------------
(* src/src/io/parsers/tsv.rs: is_gzipped_file, TsvRecordIterator *)

\* a byte is a one-character string, or the name of a byte that has none
Tab == "TAB"
Lf == "LF"
GzipMagic == <<"0x1f", "0x8b">>

\* the source at a path: it can be opened or not, and holds bytes
FileOf(bytes) == [exists |-> TRUE, bytes |-> bytes]

\* File::open: a handle at offset 0, or the io::Error
open(f) == IF f.exists THEN [ok |-> TRUE, pos |-> 0, err |-> ""]
           ELSE [ok |-> FALSE, pos |-> 0, err |-> "NotFound"]

\* file.read_exact(&mut buffer) into a buffer of n bytes, on handle h
read_exact(f, h, n) ==
    IF Len(f.bytes) - h.pos >= n
    THEN [ok |-> TRUE, pos |-> h.pos + n, err |-> "",
          buffer |-> SubSeq(f.bytes, h.pos + 1, h.pos + n)]
    ELSE [ok |-> FALSE, pos |-> Len(f.bytes), err |-> "UnexpectedEof", buffer |-> <<>>]

\* is_gzipped_file(file_path): opens the path itself and reads two bytes
is_gzipped_file(f) ==
    LET h == open(f)
        r == read_exact(f, h, 2)
    IN  IF ~h.ok THEN [ok |-> FALSE, err |-> h.err, gz |-> FALSE]
        ELSE IF ~r.ok THEN [ok |-> FALSE, err |-> r.err, gz |-> FALSE]
        ELSE [ok |-> TRUE, err |-> "", gz |-> r.buffer = GzipMagic]

\* Result<TsvRecordIterator, GRangesError>; a stream is the handle it reads
\* (by the offset the handle stands at) and whether a GzDecoder wraps it;
\* cursor counts the records the inner csv iterator has handed out
IterErr(e) == [tag |-> "Err", err |-> e, gz |-> FALSE, pos |-> 0, cursor |-> 0]
IterOk(gz, pos) == [tag |-> "Ok", err |-> "", gz |-> gz, pos |-> pos, cursor |-> 0]

\* new with the magic number read through the handle the stream then uses
new_shared_handle(f) ==
    LET h == open(f)
        r == read_exact(f, h, 2)
    IN  IF ~h.ok THEN IterErr(h.err)
        ELSE IF ~r.ok THEN IterErr(r.err)
        ELSE IterOk(r.buffer = GzipMagic, r.pos)

\* TsvRecordIterator::new(filepath)
new(f) ==
    LET h == open(f)
        g == is_gzipped_file(f)
    IN  IF ~h.ok THEN IterErr(h.err)
        ELSE IF ~g.ok THEN IterErr(g.err)
        ELSE IterOk(g.gz, h.pos)

\* the pieces of s between the occurrences of sep
RECURSIVE SplitFrom(_, _, _)
SplitFrom(s, sep, cur) ==
    IF s = <<>> THEN <<cur>>
    ELSE IF Len(s) >= Len(sep) /\ SubSeq(s, 1, Len(sep)) = sep
         THEN <<cur>> \o SplitFrom(SubSeq(s, Len(sep) + 1, Len(s)), sep, <<>>)
         ELSE SplitFrom(Tail(s), sep, Append(cur, Head(s)))
Split(s, sep) == SplitFrom(s, sep, <<>>)

\* GzDecoder over a byte stream: the payload behind the gzip header, or the
\* io::Error of a stream that does not start with one.  (A member is modelled
\* as its magic number followed by the payload stored uncompressed.)
GzDecoder(raw) ==
    IF Len(raw) >= 2 /\ SubSeq(raw, 1, 2) = GzipMagic
    THEN [ok |-> TRUE, text |-> SubSeq(raw, 3, Len(raw))]
    ELSE [ok |-> FALSE, text |-> <<>>]

\* the record shape T of the model: Arity columns, each an Option<float>
\* decoded by deserialize_option_generic with the missing token "."
BedMissing == { <<".">> }

\* Result<T, csv::Error>, by the kind of the csv::Error
CsvOk(rec) == [tag |-> "Ok", kind |-> "", msg |-> <<>>, rec |-> rec]
CsvErr(kind, msg) == [tag |-> "Err", kind |-> kind, msg |-> msg, rec |-> <<>>]

\* serde's message for a record with too few fields
InvalidLengthMsg == <<"i", "n", "v", "a", "l", "i", "d", " ", "l", "e", "n", "g", "t", "h">>

\* one record of the csv reader (tab delimiter, no headers, not flexible)
\* deserialized into T: a field count other than the first record's is
\* ErrorKind::UnequalLengths; too few fields for T, or a field whose decoder
\* fails, is ErrorKind::Deserialize
deserialize_record(fields, firstLen) ==
    LET cols == [i \in 1..Arity |-> deserialize_option_generic(fields[i], BedMissing)]
        bad  == {i \in 1..Arity : cols[i].tag = "Err"}
    IN  IF Len(fields) # firstLen THEN CsvErr("UnequalLengths", <<>>)
        ELSE IF Len(fields) < Arity THEN CsvErr("Deserialize", InvalidLengthMsg)
        ELSE IF bad # {}
             THEN CsvErr("Deserialize", cols[CHOOSE i \in bad : \A j \in bad : i <= j].str)
             ELSE CsvOk(cols)

\* the lines of the stream (empty lines are skipped), each split at the tabs
Lines(text) == SelectSeq(Split(text, <<Lf>>), LAMBDA l : l # <<>>)

\* what the inner DeserializeRecordsIntoIter yields, in order, for the stream
\* new built: the handle from offset it.pos on, behind a GzDecoder when it.gz
Records(it, f) ==
    LET raw    == SubSeq(f.bytes, it.pos + 1, Len(f.bytes))
        stream == IF it.gz THEN GzDecoder(raw) ELSE [ok |-> TRUE, text |-> raw]
        lines  == Lines(stream.text)
        rows   == [i \in 1..Len(lines) |-> Split(lines[i], <<Tab>>)]
    IN  IF ~stream.ok THEN <<CsvErr("Io", <<>>)>>
        ELSE [i \in 1..Len(rows) |-> deserialize_record(rows[i], Len(rows[1]))]

\* Option<Result<T, GRangesError>>
End == [tag |-> "End", variant |-> "", kind |-> "", msg |-> <<>>, rec |-> <<>>]
SomeOk(rec) == [tag |-> "Ok", variant |-> "", kind |-> "", msg |-> <<>>, rec |-> rec]
SomeErr(variant, e) ==
    [tag |-> "Err", variant |-> variant, kind |-> e.kind, msg |-> e.msg, rec |-> <<>>]

\* |res| res.map_err(|e| GRangesError::IOError(e.into()))
map_err(res) == IF res.tag = "Ok" THEN SomeOk(res.rec) ELSE SomeErr("IOError", res)

\* the first record past the cursor that is Ok: the errors are dropped
RECURSIVE SkipErrs(_, _)
SkipErrs(rs, c) == IF c < Len(rs) /\ rs[c + 1].tag = "Err" THEN SkipErrs(rs, c + 1) ELSE c

next_skipping_errors(it, f) ==
    LET rs == Records(it, f)
        c  == SkipErrs(rs, it.cursor)
    IN  IF c < Len(rs)
        THEN [item |-> map_err(rs[c + 1]), iter |-> [it EXCEPT !.cursor = c + 1]]
        ELSE [item |-> End, iter |-> [it EXCEPT !.cursor = c]]

\* TsvRecordIterator::next(&mut self): [item: what is returned, iter: self after]
next(it, f) ==
    LET rs == Records(it, f)
    IN  IF it.cursor < Len(rs)
        THEN [item |-> map_err(rs[it.cursor + 1]), iter |-> [it EXCEPT !.cursor = it.cursor + 1]]
        ELSE [item |-> End, iter |-> it]

\* the rows the model writes sources from: fine, with a missing value, with a
\* field that does not parse, with too few and with too many columns
RowTexts ==
    { << <<"1">>, <<"2", ".", "5">> >>,
      << <<".">>, <<"3">> >>,
      << <<"a", "b", "c">>, <<"1">> >>,
      << <<"7">> >>,
      << <<"1">>, <<"2">>, <<"3">> >> }

RECURSIVE Concat(_)
Concat(ss) == IF ss = <<>> THEN <<>> ELSE Head(ss) \o Concat(Tail(ss))

\* the bytes of rows written tab separated, one line each
WriteRows(rows) == Concat([i \in 1..Len(rows) |-> join(rows[i], <<Tab>>) \o <<Lf>>])

\* the sources: up to MaxRows rows, plain or gzipped, whose first row has no
\* more columns than T; a few shorter than the magic number; one that is not
\* there
RowSeqs == {rs \in SeqsUpTo(RowTexts, MaxRows) : rs = <<>> \/ Len(rs[1]) <= Arity}
Files ==
    {NoFile}
    \cup {FileOf(WriteRows(rs)) : rs \in RowSeqs}
    \cup {FileOf(GzipMagic \o WriteRows(rs)) : rs \in RowSeqs}
    \cup {FileOf(<<"7">>), FileOf(<<"0x1f">>), FileOf(<<"0x1f", "7", Lf>>),
          FileOf(<<"0x8b", "0x1f", Lf>>), FileOf(<<"1", Tab, "2", Lf, "a", Tab, "3">>)}

\* some source is at the path and no iterator is built yet; the aggregator
\* and the decoder are not in use
TsvInit ==
    /\ file \in Files
    /\ iter = NoIter
    /\ pulled = <<>>
    /\ data = <<>> /\ operation = "Idle" /\ result = NotCalled
    /\ field = <<>> /\ missing = {} /\ decoded = NotCalled

New ==
    /\ iter = NoIter
    /\ iter' = new(file)
    /\ UNCHANGED <<file, pulled, aggVars, decVars>>

\* the caller pulls: up to two pulls past the end of the stream
Pull ==
    /\ iter.tag = "Ok"
    /\ Len(pulled) < Len(Records(iter, file)) + 2
    /\ iter' = next(iter, file).iter
    /\ pulled' = Append(pulled, next(iter, file).item)
    /\ UNCHANGED <<file, aggVars, decVars>>

TsvNext ==
    \/ New
    \/ Pull

\* the record stream over every source
SpecStream == TsvInit /\ [][TsvNext]_vars

----------------------------------------------------------------------------
(* Properties of the aggregator. *)

\* all the orderings of a sequence
Perms(s) ==
    LET n == Len(s)
        Bij == {f \in [1..n -> 1..n] : \A i, j \in 1..n : f[i] = f[j] => i = j}
    IN  {[i \in 1..n |-> s[f[i]]] : f \in Bij}

\* the left fold of T's addition from 0, by its defining recurrence on the
\* last element: fold(s ++ [x]) = fold(s) + x
RECURSIVE LeftFold(_)
LeftFold(s) == IF s = <<>> THEN 0
               ELSE FAdd(LeftFold(SubSeq(s, 1, Len(s) - 1)), s[Len(s)])

\* the sum of the elements as real numbers (in quanta)
RECURSIVE RealSum(_)
RealSum(s) == IF s = <<>> THEN 0 ELSE s[1] + RealSum(Tail(s))

\* no addition of the fold over s rounds: every partial sum is representable
NoRounding(s) ==
    \A k \in 1..Len(s) : RoundRat(RealSum(SubSeq(s, 1, k)), 1) = RealSum(SubSeq(s, 1, k))

\* the ascending ordering of s, stated by what it is and not by how it is made
Ascending(s) ==
    CHOOSE t \in Perms(s) : \A i, j \in 1..Len(t) : i < j => t[i] <= t[j]

\* C1: float_compute(Median, data) on an empty slice returns None and does
\* not panic.
C1_MedianOfEmptyIsNone ==
    (operation = "Median" /\ data = <<>>) => result = None

\* C2 as stated: Sum returns a present Float equal to the left fold of
\* addition from 0, the same for every permutation of data, and 0 for the
\* empty slice.
C2_SumSameForEveryPermutation ==
    operation = "Sum" =>
        /\ result = SomeFloat(LeftFold(data))
        /\ \A p \in Perms(data) : float_compute("Sum", p).ret = result
        /\ data = <<>> => result.val = 0

\* C2 as amended: Sum returns a present Float equal to the left fold of
\* addition from 0 in input order, 0 for the empty slice; a permutation of
\* data gives the same result whenever no addition of either fold rounds.
C2_SumIsLeftFold ==
    operation = "Sum" =>
        /\ result = SomeFloat(LeftFold(data))
        /\ \A p \in Perms(data) :
              (NoRounding(data) /\ NoRounding(p)) => float_compute("Sum", p).ret = result
        /\ data = <<>> => result.val = 0

\* a Sum whose result another ordering of the same values does not give
C2_Witness ==
    /\ operation = "Sum"
    /\ Len(data) = 3
    /\ result.tag = "Float"
    /\ \E p \in Perms(data) : float_compute("Sum", p).ret # result
    /\ \E p \in Perms(data) : p # data /\ NoRounding(p) /\ NoRounding(data)

\* C3: Min, Max and Mean return None exactly when data is empty; otherwise
\* Float of the least element, of the greatest element, and of the sum of
\* the elements divided by their count.
C3_MinMaxMean ==
    LET n == Len(data)
        Elems == {data[i] : i \in 1..n}
    IN  /\ operation \in {"Min", "Max", "Mean"} => (result = None <=> data = <<>>)
        /\ (operation = "Min" /\ data # <<>>) =>
              /\ result.tag = "Float"
              /\ result.val \in Elems
              /\ \A x \in Elems : result.val <= x
        /\ (operation = "Max" /\ data # <<>>) =>
              /\ result.tag = "Float"
              /\ result.val \in Elems
              /\ \A x \in Elems : x <= result.val
        /\ (operation = "Mean" /\ data # <<>>) =>
              result = SomeFloat(FDiv(LeftFold(data), n * Unit))

\* a Min over three values whose least element is neither first nor greatest
C3_Witness ==
    /\ operation = "Min"
    /\ Len(data) = 3
    /\ data[1] > data[2]
    /\ data[3] > data[2]
    /\ result = SomeFloat(data[2])

\* C4: on a non-empty slice median returns the middle element of the
\* ascending ordering (odd count) or the average of its two central elements
\* (even count), and the caller's slice is the same after the call.
C4_MedianMidpoint ==
    /\ [](
         (operation = "Median" /\ data # <<>>) =>
            LET t == Ascending(data)
                n == Len(data)
            IN  IF n % 2 = 1
                THEN result = SomeFloat(t[(n \div 2) + 1])
                ELSE result = SomeFloat(FDiv(FAdd(t[n \div 2], t[(n \div 2) + 1]), 2 * Unit))
       )
    /\ [][operation' = "Median" => data' = data]_vars

\* a median of an even, unsorted slice
C4_Witness ==
    /\ operation = "Median"
    /\ Len(data) = 2
    /\ data[1] > data[2]
    /\ result = SomeFloat(FDiv(FAdd(data[2], data[1]), 2 * Unit))
    /\ result.val # data[1]

\* C5: Collapse returns a String: the renderings of the elements of data in
\* input order, duplicates kept, joined by ", "; the empty string for the
\* empty slice.
C5_CollapseJoinsInOrder ==
    operation = "Collapse" =>
        /\ result.tag = "String"
        /\ data = <<>> => result.str = <<>>
        /\ data # <<>> =>
              Split(result.str, <<",", " ">>) = [i \in 1..Len(data) |-> to_string(data[i])]

\* Collapse([1.5, -0.5, 1.5]) = "1.5, -0.5, 1.5": unsorted, with a duplicate
C5_Witness ==
    /\ operation = "Collapse"
    /\ data = <<3, -1, 3>>
    /\ Unit = 2
    /\ result.str = <<"1", ".", "5", ",", " ", "-", "0", ".", "5", ",", " ", "1", ".", "5">>

----------------------------------------------------------------------------
(* Properties of the field decoder. *)

\* sub occurs in s as a contiguous run
Contains(s, sub) ==
    \E i \in 0..(Len(s) - Len(sub)) : SubSeq(s, i + 1, i + Len(sub)) = sub

\* C6: a field text that is a missing token decodes to Ok(None), also when it
\* would parse; any other text decodes to Ok(Some(v)) when it parses to v and
\* to an error otherwise, never to Ok(None) and never to a default value.
C6_MissingCheckedBeforeParse ==
    decoded # NotCalled =>
        /\ field \in missing => decoded = OkNone
        /\ field \notin missing =>
              /\ decoded # OkNone
              /\ parse(field).tag = "OkSome" => decoded = parse(field)
              /\ parse(field).tag = "Err" => decoded.tag = "Err"

\* the text "1", which parses, decoded as missing because "1" is a token
C6_Witness ==
    /\ field = <<"1">>
    /\ parse(field) = OkSome(Unit)
    /\ field \in missing
    /\ decoded = OkNone

\* C10: the error for a text that is no missing token and does not parse
\* contains the parse failure message and the raw field text.
C10_ErrorCarriesMessageAndText ==
    (decoded.tag = "Err" /\ field \notin missing) =>
        /\ Contains(decoded.str, parse(field).str)
        /\ Contains(decoded.str, field)

----------------------------------------------------------------------------
(* Properties of the record stream. *)

\* C7: new classifies the source by its first two bytes alone: gzip magic
\* gives the decompressed stream, anything else the raw stream, either one
\* starting at byte zero of the source; a source that cannot be opened or has
\* fewer than two bytes gives an I/O error and no iterator.
C7_GzipRoutingFromByteZero ==
    iter # NoIter =>
        IF ~file.exists \/ Len(file.bytes) < 2
        THEN /\ iter.tag = "Err"
             /\ iter.err = (IF file.exists THEN "UnexpectedEof" ELSE "NotFound")
             /\ pulled = <<>>
        ELSE /\ iter.tag = "Ok"
             /\ iter.gz = (file.bytes[1] = "0x1f" /\ file.bytes[2] = "0x8b")
             /\ iter.pos = 0

\* a gzipped source of two rows routed through the decoder, its first row
\* read from the start of the payload
C7_Witness ==
    /\ file.exists
    /\ Len(file.bytes) > 2
    /\ file.bytes[1] = "0x1f" /\ file.bytes[2] = "0x8b"
    /\ iter.tag = "Ok" /\ iter.gz /\ iter.pos = 0
    /\ Len(pulled) = 2
    /\ pulled[1] = SomeOk(<<OkSome(Unit), OkSome((5 * Unit) \div 2)>>)
    /\ pulled[2] = SomeOk(<<OkNone, OkSome(3 * Unit)>>)

\* a row of the source is bad when its column count is not T's or one of its
\* columns neither is a missing token nor parses
BadRow(fields) ==
    \/ Len(fields) # Arity
    \/ \E i \in 1..Arity : fields[i] \notin BedMissing /\ parse(fields[i]).tag = "Err"

\* the rows of the source, as written
SourceRows ==
    LET text == IF iter.gz THEN SubSeq(file.bytes, 3, Len(file.bytes)) ELSE file.bytes
        lines == Lines(text)
    IN  [i \in 1..Len(lines) |-> Split(lines[i], <<Tab>>)]

C9_ErrorKindsHaveOwnVariants ==
    \A i, j \in 1..Len(pulled) :
        (pulled[i].tag = "Err" /\ pulled[j].tag = "Err" /\ pulled[i].kind # pulled[j].kind)
            => pulled[i].variant # pulled[j].variant

====
